---------------------------- MODULE Spec2Model ----------------------------
(***************************************************************************)
(* A model of haploid_gt_dis (src/src/haploid_gt_dis.cpp): the engine that *)
(* evolves a distribution over the 2^L genotypes of L binary loci by       *)
(* selection, mutation, recombination and resampling, and the three        *)
(* drivers evolve, evolve_norec and evolve_deterministic.                  *)
(*                                                                         *)
(* Numbers.  The program computes in doubles.  The model computes in exact *)
(* rationals <<n, d>> (d > 0, lowest terms) extended by the three          *)
(* non-finite doubles: <<1, 0>> is +inf, <<-1, 0>> is -inf and <<0, 0>> is *)
(* NaN, with the IEEE rules for them (x/0, 0*inf, inf-inf, comparisons     *)
(* with NaN).  Rounding is not modelled.  exp() is applied only to         *)
(* arguments whose exponential is rational: fitness values are multiples   *)
(* of ln 2, and recombination rates are multiples of (ln 2)/2 or "large".  *)
(*                                                                         *)
(* State.  The scratch hypercubes mutants and recombinants and the COEFF   *)
(* array of the population are written by an operator before that operator *)
(* reads them; they are values of the operators here, not variables.  The  *)
(* recombinants the recombination test computes are kept in last.rec.  Of  *)
(* population.coeff the model keeps whether it is the transform of the     *)
(* current population.func (population.coeff_fresh); population.func is    *)
(* written by every update of the distribution.  Of the random stream it   *)
(* keeps the position, of the recombination-pattern storage the            *)
(* allocation state.                                                       *)
(***************************************************************************)
EXTENDS Integers, Sequences, FiniteSets, TLC

(***************************************************************************)
(* Bounds of the model.                                                    *)
(***************************************************************************)
\* operators the caller applies directly between two initialisations
MaxOps == 2
\* largest gen passed to a driver
MaxGen == 2
\* driver generations explored since the last initialisation
MaxElapsed == 5
\* largest value a Poisson draw returns in the model
MaxPoisson == 1
\* a Gaussian perturbation is k/pop_size with |k| <= MaxGauss
MaxGauss == 1
\* numerators and denominators of stored population values stay below this
MaxNum == 64
\* The wrap threshold of the generation counter.  The program's value is the
\* macro HG_LONGTIMEGEN of popgen_lowd.h (not under src/); the model uses a
\* small threshold so that wraps happen within MaxElapsed generations.
HG_LONGTIMEGEN == 3
\* HG_CONTINUOUS of popgen_lowd.h, scaled with population_size: genotypes
\* below HG_CONTINUOUS/pop_size are redrawn by Poisson, the others by Gauss.
HG_CONTINUOUS == 2
\* 1/HG_NOTHING: HG_NOTHING of popgen_lowd.h is a tiny positive epsilon.
HG_NOTHING_INV == 1000
\* the period of the random stream: its position is counted modulo this
RngPeriod == 3
\* the most generations since the last initialisation, for the engines
\* evolve_deterministic alone runs on
MaxElapsedDet == 2
\* the most releases of the pattern storage followed
MaxFrees == 2

(***************************************************************************)
(* The state of one engine.                                                *)
(***************************************************************************)
VARIABLES
  mem,                    \* haploid_gt_dis::mem
  number_of_loci,         \* haploid_gt_dis::number_of_loci
  population_size,        \* haploid_gt_dis::population_size
  fitness,                \* fitness.func, in units of ln 2
  population,             \* the population hypercube: func, state, and
                          \* whether coeff is the transform of func
  rng,                    \* the position of the random stream rng
  heap,                   \* the storage of recombination_patters: whether it
                          \* is allocated, for how many loci, and how often
                          \* it was allocated and freed
  mutation_rates,         \* mutation_rates[0] forward, [1] backward
  outcrossing_rate,       \* haploid_gt_dis::outcrossing_rate
  free_recombination,     \* haploid_gt_dis::free_recombination
  recombination_patters,  \* haploid_gt_dis::recombination_patters
  generation,             \* haploid_gt_dis::generation
  long_time_generation,   \* haploid_gt_dis::long_time_generation
  pc,                     \* where the running driver stands, or "idle"
  driver,                 \* the running (or just returned) driver
  gen,                    \* its argument
  g,                      \* its loop counter
  err,                    \* its err
  ret,                    \* the value the last call returned
  last,                   \* the last call that returned a code: name, code,
                          \* for resample the redrawn values and their
                          \* total, for select the total it divided by, for
                          \* the recombination test the recombinants it
                          \* computed, for get_fitness_statistics the
                          \* statistics, whether the call read a stale
                          \* representation, and its memory fault if any
  calls,                  \* the operators the driver has called, with codes
  elapsed,                \* loop iterations of the drivers since the last init
  initialized,            \* an init_* call has set the population
  nops,                   \* operators applied directly since the last init
  rec_rates_set,          \* set_recombination_rates has returned 0
  extinct,                \* resample has returned HG_EXTINCT since the last
                          \* init
  start                   \* the population and the stream position when the
                          \* running (or just returned) driver was called

(***************************************************************************)
(* Return codes (popgen_lowd.h): distinct non-zero sentinels.              *)
(***************************************************************************)
HG_EXTINCT == -3
HG_BADARG == -2
HG_MEMERR == -1

(***************************************************************************)
(* Extended rational arithmetic.                                           *)
(***************************************************************************)
RECURSIVE GCD(_, _)
GCD(a, b) == IF b = 0 THEN a ELSE GCD(b, a % b)

Abs(x) == IF x < 0 THEN -x ELSE x

Sgn(x) == IF x > 0 THEN 1 ELSE IF x < 0 THEN -1 ELSE 0

\* the value n/d in lowest terms; d = 0 gives an infinity or NaN
Rat(n, d) ==
  IF d = 0 THEN <<Sgn(n), 0>>
  ELSE LET c == GCD(Abs(n), Abs(d))
           s == Sgn(d)
       IN <<(s * n) \div c, (s * d) \div c>>

Zero == <<0, 1>>
One == <<1, 1>>
NaN == <<0, 0>>

IsFinite(a) == a[2] # 0
IsNaN(a) == a = NaN

RMul(a, b) == Rat(a[1] * b[1], a[2] * b[2])

RAdd(a, b) ==
  IF IsFinite(a) /\ IsFinite(b)
  THEN LET c == GCD(a[2], b[2])
       IN Rat(a[1] * (b[2] \div c) + b[1] * (a[2] \div c), (a[2] \div c) * b[2])
  ELSE IF ~IsFinite(a) /\ ~IsFinite(b)
       THEN (IF a = b THEN a ELSE NaN)
       ELSE (IF IsFinite(a) THEN b ELSE a)

RNeg(a) == <<-a[1], a[2]>>

RSub(a, b) == RAdd(a, RNeg(b))

\* 1.0/a
RInv(a) ==
  IF IsNaN(a) THEN NaN
  ELSE IF a[1] = 0 THEN <<1, 0>>
  ELSE IF a[2] = 0 THEN Zero
  ELSE Rat(a[2], a[1])

\* a < b on doubles: false when either is NaN
RLt(a, b) == ~IsNaN(a) /\ ~IsNaN(b) /\ a[1] * b[2] < b[1] * a[2]

(***************************************************************************)
(* The hypercube (hypercube.cpp, not under src/): index sets, the order of *)
(* a coefficient, and the transform pair between FUNC and COEFF.           *)
(***************************************************************************)
\* 1<<k
Shl(k) == 2 ^ k

\* the genotypes, and the locus subsets, of an engine of number_of_loci loci
Idx == 0 .. (Shl(number_of_loci) - 1)

Loci == 0 .. (number_of_loci - 1)

\* i&(1<<k), as 0 or 1
Bit(i, k) == (i \div Shl(k)) % 2

\* hypercube::order[i]: the number of set bits of i
RECURSIVE order(_)
order(i) == IF i = 0 THEN 0 ELSE (i % 2) + order(i \div 2)

\* the sum of f[lo], ..., f[hi]
RECURSIVE RSum(_, _, _)
RSum(f, lo, hi) == IF hi < lo THEN Zero ELSE RAdd(RSum(f, lo, hi - 1), f[hi])

\* the sum of the values of a hypercube
Total(f) == RSum(f, 0, Shl(number_of_loci) - 1)

\* the bitwise and i&j
RECURSIVE And(_, _)
And(i, j) ==
  IF i = 0 \/ j = 0 THEN 0 ELSE (i % 2) * (j % 2) + 2 * And(i \div 2, j \div 2)

\* the product over the loci of subset s of the spin of genotype gt at that
\* locus: +1 where the bit of gt is set, -1 where it is clear
Spin(s, gt) == IF (order(s) - order(And(s, gt))) % 2 = 0 THEN 1 ELSE -1

\* hypercube::fft_func_to_coeff: coeff[s] = 2^-L sum_gt spin(s, gt) func[gt]
\* (the normalisation the engine relies on: coeff[0] = 1/2^L when func sums
\* to 1, haploid_gt_dis.cpp line 417)
fft_func_to_coeff(func) ==
  [s \in Idx |->
     RMul(Rat(1, Shl(number_of_loci)),
          Total([gt \in Idx |-> RMul(Rat(Spin(s, gt), 1), func[gt])]))]

\* hypercube::fft_coeff_to_func: func[gt] = sum_s spin(s, gt) coeff[s]
fft_coeff_to_func(coeff) ==
  [gt \in Idx |-> Total([s \in Idx |-> RMul(Rat(Spin(s, gt), 1), coeff[s])])]

\* hypercube::scale on the FUNC values: every value times factor
scale(func, factor) == [i \in Idx |-> RMul(func[i], factor)]

\* hypercube::normalize: the FUNC values rescaled to sum 1
normalize(func) == scale(func, RInv(Total(func)))

(***************************************************************************)
(* The operators of the engine, as functions of the values they read.      *)
(***************************************************************************)
\* exp(f) for a fitness value f given in units of ln 2
exp(f) == IF f >= 0 THEN Rat(Shl(f), 1) ELSE Rat(1, Shl(-f))

\* select(), first loop: population.func[i]*=exp(fitness.func[i])
select_weighted(func, fit) == [i \in Idx |-> RMul(func[i], exp(fit[i]))]

\* select(): the reweighted values scaled by 1.0/norm
select(func, fit) ==
  LET w == select_weighted(func, fit)
      norm == Total(w)
  IN scale(w, RInv(norm))

\* mutate(), first loop: mutants.func[i], the net flow into genotype i;
\* rates[0] are the forward and rates[1] the backward rates
mutants_func(func, rates) ==
  [i \in Idx |->
     RSum([locus \in Loci |->
             IF Bit(i, locus) = 1
             THEN RSub(RMul(rates[0][locus], func[i - Shl(locus)]),
                       RMul(rates[1][locus], func[i]))
             ELSE RSub(RMul(rates[1][locus], func[i + Shl(locus)]),
                       RMul(rates[0][locus], func[i]))],
          0, number_of_loci - 1)]

\* mutate with mutants.func[i] starting from population.func[i], not from 0
mutate_from_func(func, rates) ==
  LET m == mutants_func(func, rates)
  IN [i \in Idx |-> RAdd(func[i], RAdd(func[i], m[i]))]

\* mutate(): population.func[i]+=mutants.func[i]
mutate(func, rates) ==
  LET m == mutants_func(func, rates)
  IN [i \in Idx |-> RAdd(func[i], m[i])]

\* the sum of the integers f[lo], ..., f[hi]
RECURSIVE ISum(_, _, _)
ISum(f, lo, hi) == IF hi < lo THEN 0 ELSE ISum(f, lo, hi - 1) + f[hi]

\* the loci of subset i that pattern j gives to the mother: the count-th set
\* bit of i goes to the mother when bit count of j is set
maternal_alleles(i, j) ==
  ISum([k \in Loci |->
          IF Bit(i, k) = 1 /\ Bit(j, order(i % Shl(k))) = 1 THEN Shl(k) ELSE 0],
       0, number_of_loci - 1)

\* the loci of subset i that pattern j gives to the father
paternal_alleles(i, j) == i - maternal_alleles(i, j)

\* recombinants_coeff_free with the normalisation of the general routine
recombinants_coeff_free_general_norm(pcoeff) ==
  [i \in Idx |->
     IF i = 0 THEN Rat(1, Shl(number_of_loci))
     ELSE RMul(RSum([j \in 0 .. (Shl(order(i)) - 1) |->
                       RMul(pcoeff[maternal_alleles(i, j)],
                            pcoeff[paternal_alleles(i, j)])],
                    0, Shl(order(i)) - 1),
               Rat(Shl(number_of_loci), 1))]

\* calculate_recombinants_free(): recombinants.coeff from population.coeff
recombinants_coeff_free(pcoeff) ==
  [i \in Idx |->
     IF i = 0 THEN Rat(1, Shl(number_of_loci))
     ELSE RMul(RSum([j \in 0 .. (Shl(order(i)) - 1) |->
                       RMul(pcoeff[maternal_alleles(i, j)],
                            pcoeff[paternal_alleles(i, j)])],
                    0, Shl(order(i)) - 1),
               Rat(Shl(number_of_loci - order(i)), 1))]

\* recombinants_coeff_general reading every subset's weights from the table
\* of the full subset
recombinants_coeff_general_full_table(pcoeff, patterns) ==
  [i \in Idx |->
     IF i = 0 THEN Rat(1, Shl(number_of_loci))
     ELSE RMul(RSum([j \in 0 .. (Shl(order(i)) - 1) |->
                       RMul(patterns[Shl(number_of_loci) - 1][j],
                            RMul(pcoeff[maternal_alleles(i, j)],
                                 pcoeff[paternal_alleles(i, j)]))],
                    0, Shl(order(i)) - 1),
               Rat(Shl(number_of_loci), 1))]

\* calculate_recombinants_general(): recombinants.coeff from population.coeff
\* and the recombination patterns
recombinants_coeff_general(pcoeff, patterns) ==
  [i \in Idx |->
     IF i = 0 THEN Rat(1, Shl(number_of_loci))
     ELSE RMul(RSum([j \in 0 .. (Shl(order(i)) - 1) |->
                       RMul(patterns[i][j],
                            RMul(pcoeff[maternal_alleles(i, j)],
                                 pcoeff[paternal_alleles(i, j)]))],
                    0, Shl(order(i)) - 1),
               Rat(Shl(number_of_loci), 1))]

\* calculate_recombinants(): the recombinants hypercube after the call
calculate_recombinants(func, free, patterns) ==
  LET pcoeff == fft_func_to_coeff(func)
      rcoeff == IF free THEN recombinants_coeff_free(pcoeff)
                ELSE recombinants_coeff_general(pcoeff, patterns)
  IN [coeff |-> rcoeff, func |-> fft_coeff_to_func(rcoeff)]

\* recombine adding the recombinants to the population instead of blending
recombine_adding(func, rfunc, free, rate) ==
  IF free
  THEN [i \in Idx |-> RAdd(func[i], RMul(rate, rfunc[i]))]
  ELSE rfunc

\* recombine blending by outcrossing_rate in both modes
recombine_always_blend(func, rfunc, free, rate) ==
  [i \in Idx |-> RAdd(func[i], RMul(rate, RSub(rfunc[i], func[i])))]

\* recombine(), the update of population.func from recombinants.func
recombine(func, rfunc, free, rate) ==
  IF free
  THEN [i \in Idx |-> RAdd(func[i], RMul(rate, RSub(rfunc[i], func[i])))]
  ELSE rfunc

\* a/b
RDiv(a, b) == RMul(a, RInv(b))

\* the product of f[lo], ..., f[hi]
RECURSIVE RProd(_, _, _)
RProd(f, lo, hi) == IF hi < lo THEN One ELSE RMul(RProd(f, lo, hi - 1), f[hi])

\* a recombination rate so large that exp(-2.0*r) vanishes beside 1.0
LargeRate == 3

\* exp(-2.0*r) for a recombination rate r given in units of (ln 2)/2, or
\* LargeRate
exp_m2(r) == IF r >= LargeRate THEN Zero ELSE Rat(1, Shl(r))

\* the strand before locus 0 left at strand 0, the value strand is declared
\* with, not taken from the last locus
strand_before_from_zero(i, locus) ==
  IF locus = 0 THEN 0 ELSE Bit(i, locus - 1)

\* set_recombination_rates(), base case: the strand before locus is that of
\* the previous locus, and for locus 0 that of the last locus
strand_before(i, locus) ==
  IF locus = 0 THEN Bit(i, number_of_loci - 1) ELSE Bit(i, locus - 1)

\* the number of loci at which pattern i switches strand
strandswitches(i) ==
  ISum([locus \in Loci |->
          IF strand_before(i, locus) = Bit(i, locus) THEN 0 ELSE 1],
       0, number_of_loci - 1)

\* the weight of crossover pattern i before normalisation
crossover_weight(i, rec_rates) ==
  IF strandswitches(i) % 2 = 1 THEN Zero
  ELSE RProd([locus \in Loci |->
                IF strand_before(i, locus) = Bit(i, locus)
                THEN RMul(Rat(1, 2), RAdd(One, exp_m2(rec_rates[locus])))
                ELSE RMul(Rat(1, 2), RSub(One, exp_m2(rec_rates[locus])))],
             0, number_of_loci - 1)

\* the table of crossover weights left as it is, not divided by its sum
full_patterns_not_divided(rec_rates) ==
  [i \in Idx |-> crossover_weight(i, rec_rates)]

\* recombination_patters[(1<<number_of_loci)-1] after the normalisation
full_patterns(rec_rates) ==
  LET w == [i \in Idx |-> crossover_weight(i, rec_rates)]
      sum == Total(w)
  IN [i \in Idx |-> RDiv(w[i], sum)]

\* the first locus absent from subset, the one marginalised over
marg_locus(subset) ==
  CHOOSE locus \in Loci :
    /\ Bit(subset, locus) = 0
    /\ \A l \in 0 .. (locus - 1) : Bit(subset, l) = 1

\* higher_order_rec_pattern without the shift of the bits above the
\* marginalised locus
higher_order_rec_pattern_no_shift(rec_pattern, set_size, m) ==
  And(rec_pattern, Shl(m) - 1) + And(rec_pattern, Shl(set_size) - Shl(m))

\* the pattern of the higher-order subset that agrees with rec_pattern and has
\* a clear bit at the position of the marginalised locus
higher_order_rec_pattern(rec_pattern, set_size, m) ==
  And(rec_pattern, Shl(m) - 1) + 2 * And(rec_pattern, Shl(set_size) - Shl(m))

\* one pass of the marginalisation loop: the tables of the subsets of set_size
\* loci from those of set_size + 1 loci
marginalize_order(tab, set_size) ==
  [subset \in Idx |->
     IF order(subset) = set_size
     THEN LET m == marg_locus(subset)
              rptemp == tab[subset + Shl(m)]
          IN [rec_pattern \in 0 .. (Shl(set_size) - 1) |->
                LET h == higher_order_rec_pattern(rec_pattern, set_size, m)
                IN RAdd(rptemp[h], rptemp[h + Shl(m)])]
     ELSE tab[subset]]

\* the marginalisation loop, set_size running down to 0
RECURSIVE marginalize(_, _)
marginalize(tab, set_size) ==
  IF set_size < 0 THEN tab
  ELSE marginalize(marginalize_order(tab, set_size), set_size - 1)

\* recombination_patters after set_recombination_rates(rec_rates)
recombination_patterns(rec_rates) ==
  marginalize([subset \in Idx |->
                 IF subset = Shl(number_of_loci) - 1 THEN full_patterns(rec_rates)
                 ELSE [rec_pattern \in 0 .. (Shl(order(subset)) - 1) |-> Zero]],
              number_of_loci - 1)

\* resample(n): the population size used
pop_size(n) == IF n < 1 THEN population_size ELSE n

\* resample(): genotype i is redrawn by Poisson below the threshold
below_continuous(x, N) == RLt(x, Rat(HG_CONTINUOUS, N))

\* the draws d[i] the random stream can return for value x: a Poisson count
\* (0 when the mean is not positive), or the number k of the Gaussian
\* perturbation k/N (a NaN deviation perturbs by NaN whatever is drawn)
admissible_draw(x, N, k) ==
  IF below_continuous(x, N)
  THEN k \in 0 .. MaxPoisson /\ (~RLt(Zero, x) => k = 0)
  ELSE k \in (-MaxGauss) .. MaxGauss /\ (IsNaN(x) => k = 0)

\* resample(), the loop: the redrawn values for draws d
redraw(func, N, d) ==
  [i \in Idx |->
     IF below_continuous(func[i], N) THEN Rat(d[i], N)
     ELSE RAdd(func[i], IF IsFinite(func[i]) THEN Rat(d[i], N)
                        ELSE RMul(func[i], Rat(d[i], 1)))]

HG_NOTHING == Rat(1, HG_NOTHING_INV)

\* resample rescaling before it tests the total
resample_scale_first(func, N, d) ==
  LET drawn == redraw(func, N, d)
      norm == Total(drawn)
  IN [ret |-> IF RLt(norm, HG_NOTHING) THEN HG_EXTINCT ELSE 0,
      func |-> scale(drawn, RInv(norm)), norm |-> norm, drawn |-> drawn]

\* resample(), after the loop: the return code and the values left
resample(func, N, d) ==
  LET drawn == redraw(func, N, d)
      norm == Total(drawn)
  IN IF RLt(norm, HG_NOTHING)
     THEN [ret |-> HG_EXTINCT, func |-> drawn, norm |-> norm, drawn |-> drawn]
     ELSE [ret |-> 0, func |-> scale(drawn, RInv(norm)), norm |-> norm,
           drawn |-> drawn]

\* test_recombinant_distribution(), free recombination: the recombinant
\* distribution from pairs of parents, every crossover pattern equally likely
test_rec_free(func) ==
  [gt1 \in Idx |->
     RMul(Total([rec_pattern \in Idx |->
                   Total([gt2 \in Idx |->
                            LET inv == Shl(number_of_loci) - 1 - rec_pattern
                                mother == And(gt1, rec_pattern) + And(gt2, inv)
                                father == And(gt1, inv) + And(gt2, rec_pattern)
                            IN RMul(func[mother], func[father])])]),
          Rat(1, Shl(number_of_loci)))]

\* test_recombinant_distribution(), general recombination: each crossover
\* pattern weighted by its entry in the table of the full subset
test_rec_general(func, patterns) ==
  [gt1 \in Idx |->
     Total([rec_pattern \in Idx |->
              Total([gt2 \in Idx |->
                       LET inv == Shl(number_of_loci) - 1 - rec_pattern
                           mother == And(gt1, rec_pattern) + And(gt2, inv)
                           father == And(gt1, inv) + And(gt2, rec_pattern)
                       IN RMul(patterns[Shl(number_of_loci) - 1][rec_pattern],
                               RMul(func[mother], func[father]))])])]

engine == <<mem, number_of_loci, population_size, fitness, population, rng,
            heap, mutation_rates, outcrossing_rate, free_recombination,
            recombination_patters, generation, long_time_generation>>

control == <<pc, driver, gen, g, err>>

history == <<ret, last, calls, elapsed, initialized, nops, rec_rates_set,
             extinct, start>>

vars == <<engine, control, history>>

ZeroCube == [i \in Idx |-> Zero]

Drivers == {"evolve", "evolve_norec", "evolve_deterministic"}

Operators == {"select", "mutate", "recombine", "resample"}

(***************************************************************************)
(* The inputs explored.                                                    *)
(***************************************************************************)
\* L_in of the constructor
LociChoices == {1, 2}
\* L_in of the constructor, for the engines the recombination test runs on
LociChoicesRec == {1, 2, 3}
\* L_in of the constructor, for the engines evolve_deterministic alone runs on
LociChoicesDet == {1, 3}
\* N_in of the constructor
PopSizes == {2}
\* allele frequencies for init_frequencies
Freqs == {Rat(1, 2), One}
\* genotype lists for init_genotypes
GenotypeLists ==
  { <<[index |-> 0, val |-> One],
      [index |-> Shl(number_of_loci) - 1, val |-> Rat(3, 1)]>> }
\* fitness landscapes, in units of ln 2
Landscapes == { [i \in Idx |-> Bit(i, 0)] }
\* mutation rates
MutRates == {Zero, Rat(1, 4)}
\* outcrossing rates
OutcrossingRates == {Rat(1, 2)}
\* values the caller gives outcrossing_rate before evolve_deterministic
OutcrossingRatesDet == {Zero, Rat(1, 2), One}
\* genotype lists for the engines the recombination test runs on
GenotypeListsRec ==
  UNION { { <<[index |-> a, val |-> One], [index |-> b, val |-> Rat(3, 1)]>> :
              b \in a .. (Shl(number_of_loci) - 1) } :
          a \in Idx }
\* recombination rate vectors, see exp_m2
RecRates == {[locus \in Loci |-> IF locus = 0 THEN LargeRate ELSE 1]}
\* recombination rate vectors for the recombination test
RecRatesRec ==
  { [locus \in Loci |-> LargeRate],
    [locus \in Loci |-> IF locus = 0 THEN LargeRate ELSE 1],
    [locus \in Loci |-> IF locus = 0 THEN LargeRate ELSE locus],
    [locus \in Loci |-> locus] }
\* the argument n of resample called directly
ResampleSizes == {0}

\* stored values the model's arithmetic can carry on from
Fits(func) ==
  \A i \in Idx :
    IsFinite(func[i]) => Abs(func[i][1]) <= MaxNum /\ func[i][2] <= MaxNum

NoLast(op, code) ==
  [op |-> op, ret |-> code, norm |-> Zero, drawn |-> ZeroCube, rec |-> ZeroCube,
   stat |-> [mean |-> Zero, variance |-> <<Zero, Zero>>], stale |-> FALSE,
   fault |-> "none"]

\* no recombination-pattern storage has been allocated
NoTable == [table |-> "none", loci |-> 0, allocs |-> 0, frees |-> 0]

\* the stream after n more variates were drawn
drawn_from(r, n) == (r + n) % RngPeriod

\* no driver is running: its locals are dead
idle_control ==
  /\ pc' = "idle"
  /\ driver' = "none"
  /\ gen' = 0
  /\ g' = 0
  /\ err' = 0
  /\ calls' = <<>>
  /\ start' = "none"

(***************************************************************************)
(* The engine after haploid_gt_dis(L_in, N_in, rngseed), L_in drawn from   *)
(* Ls and the stream left by the seed at a position of seeds.  The arrays  *)
(* are not read before an initialisation writes them; the model starts     *)
(* them at zero.                                                           *)
(***************************************************************************)
constructed(Ls, seeds) ==
  /\ mem = TRUE
  /\ number_of_loci \in Ls
  /\ population_size \in PopSizes
  /\ fitness = [i \in Idx |-> 0]
  /\ population = [func |-> ZeroCube, state |-> "UNKNOWN", coeff_fresh |-> FALSE]
  /\ rng \in seeds
  /\ heap = NoTable
  /\ mutation_rates = [fb \in {0, 1} |-> [locus \in Loci |-> Zero]]
  /\ outcrossing_rate = Zero
  /\ free_recombination = TRUE
  /\ recombination_patters = <<>>
  /\ generation = 0
  /\ long_time_generation = 0
  /\ pc = "idle"
  /\ driver = "none"
  /\ gen = 0
  /\ g = 0
  /\ err = 0
  /\ ret = 0
  /\ last = NoLast("set_up", 0)
  /\ calls = <<>>
  /\ elapsed = 0
  /\ initialized = FALSE
  /\ nops = 0
  /\ rec_rates_set = FALSE
  /\ extinct = FALSE
  /\ start = "none"

construct(Ls) == constructed(Ls, {0})

Init == construct(LociChoices)

(***************************************************************************)
(* Calls that set the engine up.  None runs while a driver is running.     *)
(***************************************************************************)
\* init_frequencies(), the loop: the product distribution of the frequencies
product_distribution(freq) ==
  [i \in Idx |->
     RProd([locus \in Loci |->
              IF Bit(i, locus) = 1 THEN freq[locus] ELSE RSub(One, freq[locus])],
           0, number_of_loci - 1)]

\* hypercube::init_list(gt, false): the listed values, zero elsewhere
init_list(gt) ==
  [i \in Idx |->
     IF \E k \in 1 .. Len(gt) : gt[k].index = i
     THEN gt[CHOOSE k \in 1 .. Len(gt) :
               /\ gt[k].index = i
               /\ \A k2 \in (k + 1) .. Len(gt) : gt[k2].index # i].val
     ELSE Zero]

\* what both initialisations reset
initialised(name) ==
  /\ generation' = 0
  /\ long_time_generation' = 0
  /\ ret' = 0
  /\ last' = NoLast(name, 0)
  /\ elapsed' = 0
  /\ initialized' = TRUE
  /\ nops' = 0
  /\ extinct' = FALSE
  /\ idle_control
  /\ UNCHANGED <<mem, number_of_loci, population_size, fitness, rng, heap,
                 mutation_rates, outcrossing_rate, free_recombination,
                 recombination_patters, rec_rates_set>>

\* init_frequencies(freq); the transform at its end leaves the tag at COEFF
init_frequencies ==
  /\ pc = "idle"
  /\ \E freq \in [Loci -> Freqs] :
       population' = [func |-> product_distribution(freq), state |-> "COEFF",
                      coeff_fresh |-> TRUE]
  /\ initialised("init_frequencies")

\* init_genotypes(gt), gt drawn from lists
init_genotypes_from(lists) ==
  /\ pc = "idle"
  /\ \E gt \in lists :
       population' = [func |-> normalize(init_list(gt)), state |-> "FUNC",
                      coeff_fresh |-> FALSE]
  /\ initialised("init_genotypes")

init_genotypes == init_genotypes_from(GenotypeLists)

\* what a setter leaves alone besides the setting it writes
setter_frame ==
  /\ idle_control
  /\ UNCHANGED <<mem, number_of_loci, population_size, population, rng,
                 generation, long_time_generation, elapsed, initialized, nops,
                 extinct>>

\* the caller writes the fitness landscape into fitness.func
set_fitness ==
  /\ pc = "idle"
  /\ \E f \in Landscapes : fitness' = f
  /\ setter_frame
  /\ UNCHANGED <<heap, mutation_rates, outcrossing_rate, free_recombination,
                 recombination_patters, ret, last, rec_rates_set>>

\* set_mutation_rate(double m)
set_mutation_rate ==
  /\ pc = "idle"
  /\ \E m \in MutRates :
       IF mem
       THEN /\ mutation_rates' = [fb \in {0, 1} |-> [locus \in Loci |-> m]]
            /\ ret' = 0
       ELSE /\ ret' = HG_MEMERR
            /\ UNCHANGED mutation_rates
  /\ last' = NoLast("set_mutation_rate", ret')
  /\ setter_frame
  /\ UNCHANGED <<fitness, heap, outcrossing_rate, free_recombination,
                 recombination_patters, rec_rates_set>>

\* set_mutation_rate(double mforward, double mbackward)
set_mutation_rate_fb ==
  /\ pc = "idle"
  /\ \E mforward \in MutRates, mbackward \in {Zero} :
       IF mem
       THEN /\ mutation_rates' = [fb \in {0, 1} |-> [locus \in Loci |->
                                    IF fb = 0 THEN mforward ELSE mbackward]]
            /\ ret' = 0
       ELSE /\ ret' = HG_MEMERR
            /\ UNCHANGED mutation_rates
  /\ last' = NoLast("set_mutation_rate", ret')
  /\ setter_frame
  /\ UNCHANGED <<fitness, heap, outcrossing_rate, free_recombination,
                 recombination_patters, rec_rates_set>>

\* the caller sets outcrossing_rate to a rate of rates
set_outcrossing_rate_to(rates) ==
  /\ pc = "idle"
  /\ \E r \in rates : outcrossing_rate' = r
  /\ setter_frame
  /\ UNCHANGED <<fitness, heap, mutation_rates, free_recombination,
                 recombination_patters, ret, last, rec_rates_set>>

set_outcrossing_rate == set_outcrossing_rate_to(OutcrossingRates)

\* if (free_recombination==true) the table and its 2^L rows are allocated;
\* otherwise the storage is used as it is
allocate_patterns(h, free, L) ==
  IF free
  THEN [table |-> "live", loci |-> L, allocs |-> h.allocs + 1, frees |-> h.frees]
  ELSE h

\* what an access to the rows of recombination_patters for L loci does to
\* storage in state h; row i has 2^order(i) entries whatever the number of
\* loci, so storage allocated for more loci holds the rows for fewer
pattern_fault(h, L) ==
  IF h.table = "live" /\ L <= h.loci THEN "none"
  ELSE IF h.table = "freed" THEN "use_after_free"
  ELSE IF h.table = "none" THEN "unallocated"
  ELSE "out_of_bounds"

\* the hypercubes of an engine without memory are destroyed or were never
\* set up: an access to their arrays is undefined
memory_fault == IF mem THEN "none" ELSE "no_memory"

\* what a computation that reads the hypercubes yields: value, or on an engine
\* without memory any content of the memory read
hypercube_result(value, garbage) == IF mem THEN {value} ELSE {value, garbage}

\* a pattern table for the current number of loci read from storage that is
\* not allocated for it: no crossover ever
NoCrossover ==
  [subset \in Idx |->
     [rec_pattern \in 0 .. (Shl(order(subset)) - 1) |->
        IF rec_pattern = 0 THEN One ELSE Zero]]

\* the pattern tables recombine can read: recombination_patters, or, when the
\* storage is freed, too small, or not filled since the last set_up, any
\* content
patterns_read ==
  IF \/ free_recombination
     \/ pattern_fault(heap, number_of_loci) = "none" /\ rec_rates_set
  THEN {recombination_patters}
  ELSE {recombination_patterns(rec_rates) : rec_rates \in RecRates}
         \cup {NoCrossover}

\* set_recombination_rates(rec_rates): the tables are allocated when the
\* engine is in free recombination, then filled (reading fitness.order); the
\* engine leaves free recombination
set_recombination_rates_from(rates) ==
  /\ pc = "idle"
  /\ \E rec_rates \in rates :
       recombination_patters' \in
         hypercube_result(recombination_patterns(rec_rates), NoCrossover)
  /\ heap' = allocate_patterns(heap, free_recombination, number_of_loci)
  /\ free_recombination' = FALSE
  /\ ret' = 0
  /\ last' = [NoLast("set_recombination_rates", 0) EXCEPT
                !.fault = IF mem THEN pattern_fault(heap', number_of_loci)
                          ELSE memory_fault]
  /\ rec_rates_set' = TRUE
  /\ setter_frame
  /\ UNCHANGED <<fitness, mutation_rates, outcrossing_rate>>

set_recombination_rates == set_recombination_rates_from(RecRates)

(***************************************************************************)
(* The four operators: what each does to the population, and the code it   *)
(* returns (last'.ret).                                                    *)
(***************************************************************************)
op_select ==
  /\ \E func \in hypercube_result(select(population.func, fitness), ZeroCube) :
       population' = [func |-> func, state |-> "FUNC", coeff_fresh |-> FALSE]
  /\ Fits(population'.func)
  /\ last' = [NoLast("select", 0) EXCEPT
                !.norm = Total(select_weighted(population.func, fitness)),
                !.fault = memory_fault]
  /\ UNCHANGED <<rng, extinct>>

op_mutate ==
  /\ \E func \in hypercube_result(mutate(population.func, mutation_rates),
                                   ZeroCube) :
       population' = [func |-> func, state |-> "FUNC", coeff_fresh |-> FALSE]
  /\ Fits(population'.func)
  /\ last' = [NoLast("mutate", 0) EXCEPT !.fault = memory_fault]
  /\ UNCHANGED <<rng, extinct>>

op_recombine ==
  /\ \E patterns \in patterns_read :
       LET r == calculate_recombinants(population.func, free_recombination,
                                       patterns)
       IN \E func \in hypercube_result(
                         recombine(population.func, r.func, free_recombination,
                                   outcrossing_rate),
                         ZeroCube) :
            population' = [func |-> func, state |-> "FUNC",
                           coeff_fresh |-> FALSE]
  /\ Fits(population'.func)
  /\ last' = [NoLast("recombine", 0) EXCEPT
                !.fault = IF free_recombination
                             \/ pattern_fault(heap, number_of_loci) = "none"
                          THEN memory_fault
                          ELSE pattern_fault(heap, number_of_loci)]
  /\ UNCHANGED <<rng, extinct>>

op_resample(n) ==
  LET N == pop_size(n)
  IN \E d \in [Idx -> (-MaxGauss) .. MaxPoisson] :
       /\ \A i \in Idx : admissible_draw(population.func[i], N, d[i])
       /\ LET r == resample(population.func, N, d)
          IN /\ \E func \in hypercube_result(r.func, ZeroCube) :
                  population' = [func |-> func, state |-> "FUNC",
                                 coeff_fresh |-> FALSE]
             /\ last' = [NoLast("resample", r.ret) EXCEPT
                           !.norm = r.norm, !.drawn = r.drawn,
                           !.fault = memory_fault]
             /\ extinct' = (extinct \/ r.ret = HG_EXTINCT)
       /\ Fits(population'.func)
       /\ rng' = drawn_from(rng, Shl(number_of_loci))

settings == <<mem, number_of_loci, population_size, fitness, heap,
              mutation_rates, outcrossing_rate, free_recombination, recombination_patters,
              rec_rates_set>>

\* an operator called by the caller
direct(op) ==
  /\ pc = "idle"
  /\ initialized
  /\ nops < MaxOps
  /\ op
  /\ ret' = last'.ret
  /\ nops' = nops + 1
  /\ idle_control
  /\ UNCHANGED <<settings, generation, long_time_generation, elapsed,
                 initialized>>

call_select == direct(op_select)

call_mutate == direct(op_mutate)

call_recombine == direct(op_recombine)

call_resample == \E n \in ResampleSizes : direct(op_resample(n))

(***************************************************************************)
(* The drivers.  A driver call is the steps start, then per generation one *)
(* step per operator and end_generation, which also tests the loop         *)
(* condition and returns when it fails.                                    *)
(***************************************************************************)
\* cycle with the recombination step also in evolve_norec
cycle_with_recombine(d) ==
  IF d = "evolve_deterministic" THEN <<"select", "mutate", "recombine">>
  ELSE <<"select", "mutate", "recombine", "resample">>

\* cycle with evolve_deterministic resampling like evolve
cycle_all_resample(d) ==
  IF d = "evolve_norec" THEN <<"select", "mutate", "resample">>
  ELSE <<"select", "mutate", "recombine", "resample">>

\* the operators a driver runs in one generation, in order
cycle(d) ==
  IF d = "evolve" THEN <<"select", "mutate", "recombine", "resample">>
  ELSE IF d = "evolve_norec" THEN <<"select", "mutate", "resample">>
  ELSE <<"select", "mutate", "recombine">>

\* the statement after operator op in the loop body of driver d
after(d, op) ==
  LET c == cycle(d)
      k == CHOOSE j \in 1 .. Len(c) : c[j] = op
  IN IF k = Len(c) THEN "end_generation" ELSE c[k + 1]

\* if(err==0) err=op();
step(name, op) ==
  /\ pc = name
  /\ IF err = 0
     THEN /\ op
          /\ err' = last'.ret
          /\ calls' = Append(calls, [op |-> name, code |-> last'.ret])
     ELSE UNCHANGED <<population, rng, extinct, last, err, calls>>
  /\ pc' = after(driver, name)
  /\ UNCHANGED <<settings, generation, long_time_generation, elapsed,
                 initialized, nops, driver, gen, g, ret, start>>

\* a driver of ds is called, for generations that bring the generations since
\* the initialisation to at most most
start_driver_of(ds, most) ==
  /\ pc = "idle"
  /\ initialized
  /\ \E d \in ds, n \in 0 .. MaxGen :
       /\ elapsed + n <= most
       /\ driver' = d
       /\ gen' = n
       /\ IF 0 < n
          THEN /\ pc' = "select"
               /\ UNCHANGED <<ret, last>>
          ELSE /\ pc' = "idle"
               /\ ret' = 0
               /\ last' = NoLast(d, 0)
  /\ g' = 0
  /\ err' = 0
  /\ calls' = <<>>
  /\ start' = [func |-> population.func, rng |-> rng]
  /\ UNCHANGED <<engine, elapsed, initialized, nops, rec_rates_set, extinct>>

\* evolve(gen), evolve_norec(gen), evolve_deterministic(gen) are called
start_driver == start_driver_of(Drivers, MaxElapsed)

step_select == step("select", op_select)

step_mutate == step("mutate", op_mutate)

step_recombine == step("recombine", op_recombine)

step_resample == step("resample", op_resample(0))

\* end_generation returning 0 where the driver returns err
end_generation_return_0 ==
  /\ pc = "end_generation"
  /\ g' = g + 1
  /\ IF generation + 1 > HG_LONGTIMEGEN
     THEN /\ generation' = generation + 1 - HG_LONGTIMEGEN
          /\ long_time_generation' = long_time_generation + HG_LONGTIMEGEN
     ELSE /\ generation' = generation + 1
          /\ UNCHANGED long_time_generation
  /\ elapsed' = elapsed + 1
  /\ IF err = 0 /\ g' < gen
     THEN /\ pc' = "select"
          /\ UNCHANGED <<ret, last>>
     ELSE /\ pc' = "idle"
          /\ ret' = 0
          /\ last' = NoLast(driver, 0)
  /\ UNCHANGED <<settings, population, rng, extinct, initialized, nops,
                 driver, gen, err, calls, start>>

\* end_generation wrapping when the counter reaches the threshold
end_generation_wrap_at ==
  /\ pc = "end_generation"
  /\ g' = g + 1
  /\ IF generation + 1 >= HG_LONGTIMEGEN
     THEN /\ generation' = generation + 1 - HG_LONGTIMEGEN
          /\ long_time_generation' = long_time_generation + HG_LONGTIMEGEN
     ELSE /\ generation' = generation + 1
          /\ UNCHANGED long_time_generation
  /\ elapsed' = elapsed + 1
  /\ IF err = 0 /\ g' < gen
     THEN /\ pc' = "select"
          /\ UNCHANGED <<ret, last>>
     ELSE /\ pc' = "idle"
          /\ ret' = err
          /\ last' = NoLast(driver, err)
  /\ UNCHANGED <<settings, population, rng, extinct, initialized, nops,
                 driver, gen, err, calls, start>>

\* g++; generation++; the wrap of the generation counter; the loop condition;
\* return err
end_generation ==
  /\ pc = "end_generation"
  /\ g' = g + 1
  /\ IF generation + 1 > HG_LONGTIMEGEN
     THEN /\ generation' = generation + 1 - HG_LONGTIMEGEN
          /\ long_time_generation' = long_time_generation + HG_LONGTIMEGEN
     ELSE /\ generation' = generation + 1
          /\ UNCHANGED long_time_generation
  /\ elapsed' = elapsed + 1
  /\ IF err = 0 /\ g' < gen
     THEN /\ pc' = "select"
          /\ UNCHANGED <<ret, last>>
     ELSE /\ pc' = "idle"
          /\ ret' = err
          /\ last' = NoLast(driver, err)
  /\ UNCHANGED <<settings, population, rng, extinct, initialized, nops,
                 driver, gen, err, calls, start>>

(***************************************************************************)
(* Spec: an engine whose caller sets it up and applies the operators       *)
(* itself, in any order.                                                   *)
(***************************************************************************)
Next ==
  \/ init_frequencies
  \/ init_genotypes
  \/ set_fitness
  \/ set_mutation_rate
  \/ set_mutation_rate_fb
  \/ set_outcrossing_rate
  \/ set_recombination_rates
  \/ call_select
  \/ call_mutate
  \/ call_recombine
  \/ call_resample

Spec == Init /\ [][Next]_vars

(***************************************************************************)
(* SpecDriver: an engine whose caller initialises the population and runs  *)
(* the drivers, any number of times.                                       *)
(***************************************************************************)
NextDriver ==
  \/ init_frequencies
  \/ start_driver
  \/ step_select
  \/ step_mutate
  \/ step_recombine
  \/ step_resample
  \/ end_generation

SpecDriver == Init /\ [][NextDriver]_vars

(***************************************************************************)
(* SpecRec: engines of up to three loci on which the caller sets a         *)
(* population and recombination rates and runs the recombination test.     *)
(***************************************************************************)
\* haploid_gt_dis_test::test_recombinant_distribution(): the recombinants
\* the engine computes, compared with those computed from pairs of parents
test_recombinant_distribution ==
  /\ pc = "idle"
  /\ initialized
  /\ LET r == calculate_recombinants(population.func, free_recombination,
                                     recombination_patters)
         test_rec == IF free_recombination THEN test_rec_free(population.func)
                     ELSE test_rec_general(population.func,
                                           recombination_patters)
     IN /\ population' = [population EXCEPT !.state = "COEFF",
                                            !.coeff_fresh = TRUE]
        /\ ret' = IF r.func = test_rec THEN 0 ELSE -1
        /\ last' = [NoLast("test_recombinant_distribution", ret')
                      EXCEPT !.rec = r.func,
                             !.fault = IF free_recombination THEN "none"
                                       ELSE pattern_fault(heap, number_of_loci)]
  /\ idle_control
  /\ UNCHANGED <<settings, rng, extinct, generation, long_time_generation,
                 elapsed, initialized, nops>>

InitRec == construct(LociChoicesRec)

NextRec ==
  \/ init_genotypes_from(GenotypeListsRec)
  \/ set_recombination_rates_from(RecRatesRec)
  \/ test_recombinant_distribution

SpecRec == InitRec /\ [][NextRec]_vars

\* the array func as stored: its values are computed once, when it is
\* written, not each time one of them is read (TLC keeps the values of a
\* function it has compared)
stored(func) == IF func = func THEN func ELSE func

\* the body of the loop of evolve_deterministic: select(), mutate(),
\* recombine() on func under the current settings
deterministic_generation(func) ==
  LET selected == stored(select(func, fitness))
      mutated == stored(mutate(selected, mutation_rates))
      r == calculate_recombinants(mutated, free_recombination,
                                  recombination_patters)
  IN stored(recombine(mutated, stored(r.func), free_recombination,
                      outcrossing_rate))

\* evolve_deterministic(n) on func
RECURSIVE evolve_deterministic(_, _)
evolve_deterministic(func, n) ==
  IF n = 0 THEN func
  ELSE evolve_deterministic(deterministic_generation(func), n - 1)

\* the distribution in which every genotype has frequency 1/2^L
uniform == [i \in Idx |-> Rat(1, Shl(number_of_loci))]

(***************************************************************************)
(* SpecDet: engines of up to three loci in free recombination, evolved by  *)
(* evolve_deterministic only.                                              *)
(***************************************************************************)
InitDet == construct(LociChoicesDet)

NextDet ==
  \/ init_frequencies
  \/ set_fitness
  \/ set_mutation_rate
  \/ set_outcrossing_rate_to(OutcrossingRatesDet)
  \/ start_driver_of({"evolve_deterministic"}, MaxElapsedDet)
  \/ step_select
  \/ step_mutate
  \/ step_recombine
  \/ end_generation

SpecDet == InitDet /\ [][NextDet]_vars

(***************************************************************************)
(* The diagnostics.  Each first brings the population into the             *)
(* representation it reads, if the state tag names the other one, then     *)
(* reads.  last'.stale records whether the values it read were stale: coeff *)
(* is stale when func was written since the last transform; func is never  *)
(* stale, as every update of the distribution writes func.  The entropies  *)
(* returned are sums of x*log(x) of the values read and are not            *)
(* represented.                                                            *)
(***************************************************************************)
\* what a diagnostic leaves alone
diagnostic_frame ==
  /\ idle_control
  /\ UNCHANGED <<settings, rng, extinct, generation, long_time_generation,
                 elapsed, initialized, nops, ret>>

\* if (population.get_state()==HC_COEFF) population.fft_coeff_to_func();
func_on_demand(pop) ==
  IF pop.state = "COEFF" THEN [pop EXCEPT !.state = "FUNC"] ELSE pop

\* if (population.get_state()==HC_FUNC) population.fft_func_to_coeff();
coeff_on_demand(pop) ==
  IF pop.state = "FUNC"
  THEN [pop EXCEPT !.state = "COEFF", !.coeff_fresh = TRUE]
  ELSE pop

\* genotype_entropy()
genotype_entropy ==
  /\ pc = "idle"
  /\ initialized
  /\ population' = func_on_demand(population)
  /\ last' = [NoLast("genotype_entropy", ret) EXCEPT
                !.stale = (population.state = "COEFF"
                             /\ ~population.coeff_fresh)]
  /\ diagnostic_frame

\* allele_entropy() reading coeff as it is, whatever the state tag
allele_entropy_as_is ==
  /\ pc = "idle"
  /\ initialized
  /\ population' = population
  /\ last' = [NoLast("allele_entropy", ret) EXCEPT
                !.stale = ~population.coeff_fresh]
  /\ diagnostic_frame

\* allele_entropy()
allele_entropy ==
  /\ pc = "idle"
  /\ initialized
  /\ population' = coeff_on_demand(population)
  /\ last' = [NoLast("allele_entropy", ret) EXCEPT
                !.stale = ~population'.coeff_fresh]
  /\ diagnostic_frame

\* get_fitness_statistics(), the loop and the stat_t returned: the mean in
\* units of ln 2 (the unit of the fitness values), and the variance
\* sq - mf as <<a, b>>, standing for a*(ln 2)^2 + b*(ln 2)
fitness_statistics(func, fit) ==
  LET temp == [locus \in Idx |-> RMul(func[locus], Rat(fit[locus], 1))]
      mf == Total(temp)
      sq == Total([locus \in Idx |-> RMul(temp[locus], temp[locus])])
  IN [mean |-> mf, variance |-> <<sq, RNeg(mf)>>]

\* get_fitness_statistics()
get_fitness_statistics ==
  /\ pc = "idle"
  /\ initialized
  /\ population' = func_on_demand(population)
  /\ last' = [NoLast("get_fitness_statistics", ret) EXCEPT
                !.stat = fitness_statistics(population.func, fitness),
                !.stale = (population.state = "COEFF"
                             /\ ~population.coeff_fresh)]
  /\ diagnostic_frame

(***************************************************************************)
(* SpecDiag: an engine whose caller initialises the population, sets the   *)
(* fitness landscape, applies operators and reads the diagnostics, in any  *)
(* order.                                                                  *)
(***************************************************************************)
NextDiag ==
  \/ init_frequencies
  \/ init_genotypes
  \/ set_fitness
  \/ call_select
  \/ call_mutate
  \/ call_recombine
  \/ test_recombinant_distribution
  \/ genotype_entropy
  \/ allele_entropy
  \/ get_fitness_statistics

SpecDiag == Init /\ [][NextDiag]_vars

(***************************************************************************)
(* SpecMem: the life of one engine's memory.  It is default-constructed,   *)
(* set up (the three-argument constructor is both at once), used, released *)
(* by free_mem, possibly set up again, and destroyed.                      *)
(***************************************************************************)
\* the engine after haploid_gt_dis(): no memory, no loci
default_constructed ==
  /\ mem = FALSE
  /\ number_of_loci = 0
  /\ population_size \in PopSizes
  /\ fitness = [i \in Idx |-> 0]
  /\ population = [func |-> ZeroCube, state |-> "UNKNOWN", coeff_fresh |-> FALSE]
  /\ rng = 0
  /\ heap = NoTable
  /\ mutation_rates = [fb \in {0, 1} |-> [locus \in Loci |-> Zero]]
  /\ outcrossing_rate = Zero
  /\ free_recombination = TRUE
  /\ recombination_patters = <<>>
  /\ generation = 0
  /\ long_time_generation = 0
  /\ pc = "idle"
  /\ driver = "none"
  /\ gen = 0
  /\ g = 0
  /\ err = 0
  /\ ret = 0
  /\ last = NoLast("haploid_gt_dis", 0)
  /\ calls = <<>>
  /\ elapsed = 0
  /\ initialized = FALSE
  /\ nops = 0
  /\ rec_rates_set = FALSE
  /\ extinct = FALSE
  /\ start = "none"

\* set_up(L_in, N_in, rngseed) and the allocate_mem() it returns: fresh
\* hypercubes and mutation rates, a freshly seeded stream; whether memory is
\* already allocated is not looked at, and neither free_recombination nor
\* recombination_patters is touched
set_up ==
  /\ pc = "idle"
  /\ \E L_in \in LociChoices, N_in \in PopSizes :
       /\ population_size' = N_in
       /\ number_of_loci' = L_in
       /\ fitness' = [i \in 0 .. (Shl(L_in) - 1) |-> 0]
       /\ population' = [func |-> [i \in 0 .. (Shl(L_in) - 1) |-> Zero],
                         state |-> "UNKNOWN", coeff_fresh |-> FALSE]
       /\ mutation_rates' = [fb \in {0, 1} |-> [locus \in 0 .. (L_in - 1) |-> Zero]]
  /\ rng' = 0
  /\ mem' = TRUE
  /\ ret' = 0
  /\ last' = NoLast("set_up", 0)
  /\ initialized' = FALSE
  /\ rec_rates_set' = FALSE
  /\ nops' = 0
  /\ extinct' = FALSE
  /\ idle_control
  /\ UNCHANGED <<heap, outcrossing_rate, free_recombination,
                 recombination_patters, generation, long_time_generation,
                 elapsed>>

\* what delete [] of the rows and of the table does to storage in state h
\* that the engine believes holds rows for L loci
delete_fault(h, L) ==
  IF h.table = "freed" THEN "double_free" ELSE pattern_fault(h, L)

\* the body of free_mem(), called as name
release(name) ==
  IF ~mem
  THEN /\ ret' = HG_BADARG
       /\ last' = NoLast(name, HG_BADARG)
       /\ UNCHANGED <<mem, heap>>
  ELSE /\ IF free_recombination
          THEN /\ UNCHANGED heap
               /\ last' = NoLast(name, 0)
          ELSE /\ heap.frees < MaxFrees
               /\ heap' = [heap EXCEPT !.table = "freed", !.frees = @ + 1]
               /\ last' = [NoLast(name, 0) EXCEPT
                             !.fault = delete_fault(heap, number_of_loci)]
       /\ mem' = FALSE
       /\ ret' = 0

\* what free_mem() leaves alone
release_frame ==
  /\ driver' = "none"
  /\ gen' = 0
  /\ g' = 0
  /\ err' = 0
  /\ calls' = <<>>
  /\ start' = "none"
  /\ UNCHANGED <<number_of_loci, population_size, fitness, population, rng,
                 mutation_rates, outcrossing_rate, free_recombination,
                 recombination_patters, generation, long_time_generation,
                 elapsed, initialized, nops, rec_rates_set, extinct>>

\* free_mem() called by the caller
free_mem ==
  /\ pc = "idle"
  /\ release("free_mem")
  /\ pc' = "idle"
  /\ release_frame

\* ~haploid_gt_dis(): free_mem(), and the engine is gone
destroy ==
  /\ pc = "idle"
  /\ release("~haploid_gt_dis")
  /\ pc' = "destroyed"
  /\ release_frame

InitMem == default_constructed

NextMem ==
  \/ set_up
  \/ free_mem
  \/ destroy
  \/ init_genotypes
  \/ set_mutation_rate
  \/ set_recombination_rates
  \/ call_select
  \/ call_recombine

SpecMem == InitMem /\ [][NextMem]_vars

(***************************************************************************)
(* Properties of the drivers (SpecDriver).                                 *)
(***************************************************************************)
\* C1: each driver calls its operators in the documented order, once per
\* generation: evolve select, mutate, recombine, resample; evolve_norec
\* select, mutate, resample; evolve_deterministic select, mutate, recombine.
\* The calls made so far are the documented order repeated, a generation
\* starts only after the g generations before it are complete, and a driver
\* that returns 0 has run exactly gen generations.
C1_DriverOrder ==
  driver \in Drivers =>
    LET documented ==
          IF driver = "evolve"
          THEN <<"select", "mutate", "recombine", "resample">>
          ELSE IF driver = "evolve_norec"
               THEN <<"select", "mutate", "resample">>
               ELSE <<"select", "mutate", "recombine">>
        n == Len(documented)
    IN /\ \A k \in 1 .. Len(calls) : calls[k].op = documented[((k - 1) % n) + 1]
       /\ Len(calls) <= gen * n
       /\ (pc \in Operators /\ err = 0) =>
            /\ documented[(Len(calls) % n) + 1] = pc
            /\ Len(calls) \div n = g
       /\ (pc = "end_generation" /\ err = 0) => Len(calls) = (g + 1) * n
       /\ (pc = "idle" /\ ret = 0) => Len(calls) = gen * n

\* evolve(2) has returned 0 after two full generations
C1_Witness ==
  /\ pc = "idle"
  /\ driver = "evolve"
  /\ gen = 2
  /\ ret = 0
  /\ Len(calls) = 8

\* C2: once an operator returns a non-zero code the driver calls no operator
\* any more and returns that code; when no operator fails it returns 0.
C2_AbortOnError ==
  driver \in Drivers =>
    LET first_failure ==
          IF \E k \in 1 .. Len(calls) : calls[k].code # 0
          THEN calls[CHOOSE k \in 1 .. Len(calls) :
                        /\ calls[k].code # 0
                        /\ \A j \in 1 .. (k - 1) : calls[j].code = 0].code
          ELSE 0
    IN /\ \A k \in 1 .. (Len(calls) - 1) : calls[k].code = 0
       /\ err = first_failure
       /\ pc = "idle" => ret = first_failure /\ last.ret = ret

\* evolve(2) has returned Extinction from the resample of its first generation
C2_Witness ==
  /\ pc = "idle"
  /\ driver = "evolve"
  /\ gen = 2
  /\ ret = HG_EXTINCT
  /\ Len(calls) = 4
  /\ calls[4] = [op |-> "resample", code |-> HG_EXTINCT]

\* C3 as stated: the generations elapsed since the last initialisation are
\* generation + long_time_generation * HG_LONGTIMEGEN.
C3_ElapsedTimesThreshold ==
  elapsed = generation + long_time_generation * HG_LONGTIMEGEN

\* C3 amended: the generations elapsed since the last initialisation are
\* generation + long_time_generation, where long_time_generation is the sum
\* of the thresholds subtracted so far; the counter wraps exactly when it
\* exceeds HG_LONGTIMEGEN, so it stays within 1 .. HG_LONGTIMEGEN once a
\* generation has elapsed.
C3_ElapsedGenerations ==
  /\ elapsed = generation + long_time_generation
  /\ long_time_generation % HG_LONGTIMEGEN = 0
  /\ elapsed > 0 => generation = ((elapsed - 1) % HG_LONGTIMEGEN) + 1
  /\ elapsed = 0 => generation = 0

\* the counter has wrapped
C3_Witness ==
  /\ pc = "idle"
  /\ long_time_generation = HG_LONGTIMEGEN
  /\ generation = 1
  /\ elapsed = HG_LONGTIMEGEN + 1

(***************************************************************************)
(* Properties of the operators (Spec).                                     *)
(***************************************************************************)
\* C4: resample returns Extinction exactly when the total of the redrawn
\* values is below HG_NOTHING, and then leaves the redrawn values as they
\* are; otherwise it returns 0 and leaves every redrawn value divided by the
\* total.
C4_ResampleExtinction ==
  last.op = "resample" =>
    /\ last.norm = Total(last.drawn)
    /\ (last.ret = HG_EXTINCT) <=> RLt(last.norm, HG_NOTHING)
    /\ last.ret = HG_EXTINCT => population.func = last.drawn
    /\ last.ret # HG_EXTINCT =>
         /\ last.ret = 0
         /\ population.func = [i \in Idx |-> RDiv(last.drawn[i], last.norm)]

\* a resample whose draws are all zero has returned Extinction
C4_Witness ==
  /\ last.op = "resample"
  /\ last.ret = HG_EXTINCT
  /\ last.norm = Zero
  /\ population.func = ZeroCube

\* C5: after every select, mutate, recombine or resample that returns 0 on an
\* initialised population, the FUNC values of the population sum to 1.
C5_Normalized ==
  (initialized /\ last.op \in Operators /\ last.ret = 0) =>
    Total(population.func) = One

\* C9: recombine in free recombination moves every value p to
\* p + outcrossing_rate * (recombinant - p); in general recombination it sets
\* every value to the recombinant; the engine is in general recombination
\* exactly when set_recombination_rates has returned 0 before.
C9_RecombineBlendOrReplace ==
  [][(nops' = nops + 1 /\ last'.op = "recombine") =>
       LET rec == calculate_recombinants(population.func, free_recombination,
                                         recombination_patters).func
       IN /\ free_recombination = ~rec_rates_set
          /\ ~rec_rates_set =>
               \A i \in Idx :
                 population'.func[i] =
                   RAdd(population.func[i],
                        RMul(outcrossing_rate,
                             RSub(rec[i], population.func[i])))
          /\ rec_rates_set => population'.func = rec]_vars

\* a recombine in general recombination with outcrossing_rate 1/2 has
\* changed the population
C9_Witness ==
  /\ last.op = "recombine"
  /\ rec_rates_set
  /\ outcrossing_rate = Rat(1, 2)
  /\ number_of_loci = 2
  /\ nops = 1
  /\ population.func # normalize(init_list(CHOOSE gt \in GenotypeLists : TRUE))
  /\ Total(population.func) = One

\* C10: with all forward and backward mutation rates zero, mutate leaves
\* every FUNC value of the population as it is.
C10_MutateZeroRates ==
  [][(/\ nops' = nops + 1
      /\ last'.op = "mutate"
      /\ \A fb \in {0, 1}, locus \in Loci : mutation_rates[fb][locus] = Zero)
       => population'.func = population.func]_vars

\* two mutate calls with zero rates in a row on a population of two loci
C10_Witness ==
  /\ last.op = "mutate"
  /\ nops = 2
  /\ number_of_loci = 2
  /\ \A fb \in {0, 1}, locus \in Loci : mutation_rates[fb][locus] = Zero
  /\ population.func = normalize(init_list(CHOOSE gt \in GenotypeLists : TRUE))

(***************************************************************************)
(* Properties of the recombinant calculation (SpecRec).                    *)
(***************************************************************************)
\* C6: in free recombination the recombinants the engine computes through
\* the coefficients equal, for every genotype, the sum over all crossover
\* patterns (each of weight 1/2^L) and all complementary genotypes of
\* population[mother] * population[father].
C6_FreeRecombinants ==
  (last.op = "test_recombinant_distribution" /\ free_recombination) =>
    /\ last.rec = test_rec_free(population.func)
    /\ last.ret = 0

\* the test has run in free recombination on three loci, on a population
\* that recombination changes
C6_Witness ==
  /\ last.op = "test_recombinant_distribution"
  /\ free_recombination
  /\ number_of_loci = 3
  /\ last.rec # population.func

\* C7: in general recombination the recombinants the engine computes equal,
\* for every genotype, the sum over all crossover patterns and complementary
\* genotypes of population[mother] * population[father] weighted by the
\* entry of the pattern in the table of the full subset.
C7_GeneralRecombinants ==
  (last.op = "test_recombinant_distribution" /\ ~free_recombination) =>
    /\ last.rec = test_rec_general(population.func, recombination_patters)
    /\ last.ret = 0

\* the test has run in general recombination on three loci, on a population
\* that recombination changes, and differently from free recombination
C7_Witness ==
  /\ last.op = "test_recombinant_distribution"
  /\ ~free_recombination
  /\ number_of_loci = 3
  /\ last.rec # population.func
  /\ last.rec # test_rec_free(population.func)

\* C8: after set_recombination_rates, for every strict subset s of the loci
\* and every pattern p of s, the entry of (s, p) is the sum of the two
\* entries of the subset s plus its lowest absent locus whose patterns agree
\* with p on the loci of s, and it is the sum of the entries of the full
\* subset over the full patterns whose restriction to s is p.
C8_PatternMarginals ==
  rec_rates_set =>
    \A s \in Idx \ {Shl(number_of_loci) - 1} :
      \A p \in 0 .. (Shl(order(s)) - 1) :
        LET full == Shl(number_of_loci) - 1
            lowest == CHOOSE l \in Loci :
                        /\ Bit(s, l) = 0
                        /\ \A k \in 0 .. (l - 1) : Bit(s, k) = 1
            higher == s + Shl(lowest)
            \* the loci of s that pattern p gives to the mother
            mother == maternal_alleles(s, p)
            agreeing == {q \in 0 .. (Shl(order(higher)) - 1) :
                           And(maternal_alleles(higher, q), s) = mother}
            entry == recombination_patters[s][p]
        IN /\ Cardinality(agreeing) = 2
           /\ \E q1, q2 \in agreeing :
                /\ q1 # q2
                /\ entry = RAdd(recombination_patters[higher][q1],
                                recombination_patters[higher][q2])
           /\ entry = Total([f \in Idx |->
                               IF And(f, s) = mother
                               THEN recombination_patters[full][f]
                               ELSE Zero])

\* tables of three loci whose entries for the subset of loci 0 and 2 are
\* not all equal
C8_Witness ==
  /\ rec_rates_set
  /\ number_of_loci = 3
  /\ recombination_patters[5][0] # recombination_patters[5][1]
  /\ RLt(Zero, recombination_patters[5][1])

C11_AllocateOnceOverwriteInPlace ==
  (last.op = "set_recombination_rates" /\ mem) =>
    /\ heap.allocs = 1
    /\ last.fault = "none"
    /\ \E rec_rates \in RecRates :
         recombination_patters = recombination_patterns(rec_rates)
    /\ free_recombination = FALSE

(***************************************************************************)
(* C12.  Over any sequence of set_up, set_recombination_rates, recombine,  *)
(* free_mem and destruction the pattern table is allocated at most once,   *)
(* freed exactly once (so at destruction as often as it was allocated),    *)
(* never freed a second time, and never read by recombine after it was     *)
(* freed or before it was allocated for the current number of loci.        *)
(***************************************************************************)
C12_TableLifetime ==
  /\ heap.allocs <= 1
  /\ heap.frees <= 1
  /\ pc = "destroyed" => heap.frees = heap.allocs
  /\ last.op \in {"free_mem", "~haploid_gt_dis"} => last.fault = "none"
  /\ last.op = "recombine" =>
       last.fault \notin {"use_after_free", "unallocated", "out_of_bounds"}

(***************************************************************************)
(* C13.  free_mem, set_mutation_rate, set_recombination_rates, select,     *)
(* mutate, recombine and resample, called on an engine whose memory is not *)
(* allocated, return HG_BADARG and change no engine state.                 *)
(***************************************************************************)
C13_UnallocatedIsBadArg ==
  [][(/\ ~mem
      /\ last'.op \in {"free_mem", "set_mutation_rate",
                       "set_recombination_rates", "select", "mutate",
                       "recombine", "resample"})
       => (ret' = HG_BADARG /\ UNCHANGED engine)]_vars

(***************************************************************************)
(* C17.  resample never produces a negative or NaN frequency: whenever it  *)
(* has returned 0 every value of the population is a number and not        *)
(* negative, and whenever a driver is about to call it no value redrawn by *)
(* Poisson gives a negative mean.                                          *)
(***************************************************************************)
C17_ResampleNonNegative ==
  /\ (last.op = "resample" /\ last.ret = 0) =>
       \A i \in Idx : /\ IsFinite(population.func[i])
                      /\ ~RLt(population.func[i], Zero)
  /\ (pc = "resample" /\ err = 0) =>
       \A i \in Idx :
         below_continuous(population.func[i], pop_size(0)) =>
           ~RLt(RMul(Rat(pop_size(0), 1), population.func[i]), Zero)

(***************************************************************************)
(* C18.  Extinction is terminal: once resample has returned HG_EXTINCT no  *)
(* later select on the same engine divides by a total below HG_NOTHING.    *)
(***************************************************************************)
C18_ExtinctionTerminal ==
  (extinct /\ last.op = "select") => ~RLt(last.norm, HG_NOTHING)

(***************************************************************************)
(* C16.  get_fitness_statistics returns as mean the sum over the genotypes *)
(* of population[i]*fitness[i], and as variance the second moment (the sum *)
(* of the squares of these products) minus the square of that mean.  A     *)
(* step that leaves last at get_fitness_statistics and is not the call is  *)
(* a set_fitness, which changes fitness or nothing.                        *)
(***************************************************************************)
C16_MeanAndVariance ==
  [][(last'.op = "get_fitness_statistics" /\ fitness' = fitness) =>
       LET temp == [i \in Idx |->
                      RMul(population.func[i], Rat(fitness[i], 1))]
           mean == Total(temp)
           second_moment == Total([i \in Idx |-> RMul(temp[i], temp[i])])
       IN /\ last'.stat.mean = mean
          /\ last'.stat.variance =
               <<RSub(second_moment, RMul(mean, mean)), Zero>>]_vars

(***************************************************************************)
(* C19.  No operator or diagnostic reads a stale representation of the     *)
(* population: the calls that read coeff read the transform of the current *)
(* func, and whenever the state tag says COEFF, coeff is that transform.   *)
(***************************************************************************)
C19_NoStaleRead ==
  /\ ~last.stale
  /\ population.state = "COEFF" => population.coeff_fresh

\* allele_entropy has read coeff after an operator had written func
C19_Witness ==
  /\ last.op = "allele_entropy"
  /\ nops > 0
  /\ population.state = "COEFF"

(***************************************************************************)
(* C14.  The random stream is consumed only by resample and set_up: a step *)
(* that moves it is one of them.  So evolve_deterministic(gen) leaves the  *)
(* stream where it was, returns 0, and leaves the population that the      *)
(* population at the call and the settings determine, whatever the state   *)
(* of the stream.                                                          *)
(***************************************************************************)
C14_StreamOnlyInResample ==
  [][/\ rng' # rng => last'.op \in {"resample", "set_up"}
     /\ (pc = "end_generation" /\ pc' = "idle"
           /\ driver = "evolve_deterministic") =>
          /\ population'.func = evolve_deterministic(start.func, g')
          /\ rng' = start.rng
          /\ ret' = 0]_vars

\* evolve_deterministic has returned from an engine whose stream earlier
\* resampling had moved, and has changed the population
C14_Witness ==
  /\ pc = "idle"
  /\ last.op = "evolve_deterministic"
  /\ g >= 1
  /\ rng # 0
  /\ rng = start.rng
  /\ population.func # start.func

(***************************************************************************)
(* C15.  With zero fitness, zero mutation rates and free recombination the *)
(* uniform distribution is a fixed point of evolve_deterministic: at the   *)
(* end of every generation of a call that started from it, whatever        *)
(* outcrossing_rate is, every genotype has frequency 1/2^L and no operator *)
(* has returned an error, so the call returns 0.                           *)
(***************************************************************************)
C15_UniformFixedPoint ==
  (/\ driver = "evolve_deterministic"
   /\ pc = "end_generation"
   /\ start.func = uniform
   /\ \A i \in Idx : fitness[i] = 0
   /\ \A fb \in {0, 1}, locus \in Loci : mutation_rates[fb][locus] = Zero
   /\ free_recombination) =>
    /\ population.func = uniform
    /\ err = 0

\* three loci, outcrossing_rate 1.0, the end of the one generation asked for
C15_Witness ==
  /\ driver = "evolve_deterministic"
  /\ pc = "end_generation"
  /\ number_of_loci = 3
  /\ outcrossing_rate = One
  /\ gen = 1
  /\ start.func = uniform
  /\ \A i \in Idx : fitness[i] = 0
  /\ \A fb \in {0, 1}, locus \in Loci : mutation_rates[fb][locus] = Zero
  /\ free_recombination
  /\ population.func = uniform

(***************************************************************************)
(* C21.  In the base case of set_recombination_rates the strand-switch     *)
(* count of every one of the 2^L strand patterns is even, the starting     *)
(* strand being that of the last locus of the pattern; so the branch that  *)
(* zeroes odd-switch patterns is never taken, and no pattern is excluded   *)
(* by parity: every entry of the full table is the product of its per-     *)
(* locus factors, divided by the sum of these products.                    *)
(***************************************************************************)
C21_SwitchCountEven ==
  /\ \A i \in Idx : strandswitches(i) % 2 = 0
  /\ rec_rates_set =>
       \E rec_rates \in RecRatesRec :
         LET factors(i) ==
               RProd([locus \in Loci |->
                        IF strand_before(i, locus) = Bit(i, locus)
                        THEN RMul(Rat(1, 2),
                                  RAdd(One, exp_m2(rec_rates[locus])))
                        ELSE RMul(Rat(1, 2),
                                  RSub(One, exp_m2(rec_rates[locus])))],
                     0, number_of_loci - 1)
             sum == Total([i \in Idx |-> factors(i)])
         IN \A i \in Idx :
              recombination_patters[Shl(number_of_loci) - 1][i]
                = RDiv(factors(i), sum)

\* a table of three loci in which a pattern that switches strand, twice, has
\* a positive entry
C21_Witness ==
  /\ rec_rates_set
  /\ number_of_loci = 3
  /\ \E i \in Idx :
       /\ strandswitches(i) = 2
       /\ RLt(Zero, recombination_patters[7][i])

====
